---- MODULE Spec2Model ----
(***************************************************************************)
(* The VMX instruction wrappers of src/instructions/vmx.rs: eight          *)
(* primitives that each issue one VMX instruction, read CF/ZF with setna   *)
(* and return an Option, together with the two invalidation descriptors    *)
(* and the two invalidation-type enumerations.                             *)
(*                                                                         *)
(* 64-bit quantities are drawn from small sample sets below 2^31; a        *)
(* quantity that the code never produces is written -1.                    *)
(***************************************************************************)
EXTENDS Integers, Sequences, FiniteSets, TLC

VARIABLES
    backend,    \* "inline" (feature inline_asm) or "extern" (crate::asm): fixed at build time
    cpu,        \* the logical processor: [vmxOn, current, vmcs]
    last,       \* the call that returned last: arguments, instructions issued, outcome, result
    hist,       \* history: TRUE once a vmxon or a vmptrld has returned Some
    shadow      \* history: <<field, value>> of each vmwrite that returned Some on the working VMCS

vars == <<backend, cpu, last, hist, shadow>>

----------------------------------------------------------------------------
(* Bounds and sample inputs *)

NumPhys == 2
NumVpid == 2

\* 0x1000 (page aligned), 0x2001 (not aligned), ...
PhysAddrs == {4096 + 4097 * k : k \in 0..(NumPhys - 1)}
\* <<vpid, linear address>>: <<5, 0x2000>>, <<0x1239, 0x12345678>>, ...
VpidInputs == {<<5 + 4660 * k, 8192 + 305411704 * k>> : k \in 0..(NumVpid - 1)}
\* 0x1000, 0x12345678
Eptps == {4096, 305419896}
\* VMCS field encodings 0x6800 (guest CR0), 0x681E (guest RIP)
Fields == {26624, 26654}
\* values a VMCS field may hold; one is also the number of a field encoding
VmcsValues == {0, 26654}
\* what a register that the instruction did not write may hold
JunkValues == {0, 48879}

Backends == {"inline", "extern"}
Flags == [cf : {0, 1}, zf : {0, 1}]

----------------------------------------------------------------------------
(* Little-endian byte encoding (x86_64) *)

RECURSIVE ToLE(_, _)
ToLE(v, n) == IF n = 0 THEN <<>> ELSE <<v % 256>> \o ToLE(v \div 256, n - 1)

RECURSIVE FromLE(_)
FromLE(b) == IF b = <<>> THEN 0 ELSE Head(b) + 256 * FromLE(Tail(b))

Slice(b, from, to) == [i \in 1..(to - from + 1) |-> b[from + i - 1]]

AllZero(b) == \A i \in 1..Len(b) : b[i] = 0

----------------------------------------------------------------------------
(* Address types (crate::PhysAddr, crate::VirtAddr): 64-bit newtypes *)

PhysAddr(n) == [phys |-> n]
VirtAddr(n) == [virt |-> n]

\* PhysAddr::as_u64
AsU64(addr) == addr.phys

\* the in-memory image of a VirtAddr field: its 64-bit value
VirtAddrBytes(addr) == ToLE(addr.virt, 8)

----------------------------------------------------------------------------
(* Option *)

None == [tag |-> "None", val |-> -1]
Some(v) == [tag |-> "Some", val |-> v]
\* Some(())
SomeUnit == Some(-1)
\* the call did not return: the instruction raised an exception
NoReturn == [tag |-> "NoReturn", val |-> -1]

----------------------------------------------------------------------------
(* The invalidation types and descriptors *)

InvEptTypes == {"SingleContext", "Global"}

\* #[repr(u64)] enum InvEptType
InvEptTypeCode(t) ==
    CASE t = "SingleContext" -> 1
      [] t = "Global" -> 2

InvVpidTypes == {"IndividualAddress", "SingleContext", "AllContext", "SingleContextNonGlobal"}

\* faulty variant: the variants numbered from 1, as those of InvEptType are
InvVpidTypeCodeFromOne(t) ==
    CASE t = "IndividualAddress" -> 1
      [] t = "SingleContext" -> 2
      [] t = "AllContext" -> 3
      [] t = "SingleContextNonGlobal" -> 4

\* #[repr(u64)] enum InvVpidType
InvVpidTypeCode(t) ==
    CASE t = "IndividualAddress" -> 0
      [] t = "SingleContext" -> 1
      [] t = "AllContext" -> 2
      [] t = "SingleContextNonGlobal" -> 3

\* InvEptDescriptor { eptp, reserved: 0 }
InvEptDescriptor(eptp) == [eptp |-> eptp, reserved |-> 0]

\* faulty variant: `reserved` declared before `eptp`
InvEptDescriptorBytesReservedFirst(d) == ToLE(d.reserved, 8) \o ToLE(d.eptp, 8)

\* #[repr(C, packed)]: the fields in declaration order, no padding
InvEptDescriptorBytes(d) == ToLE(d.eptp, 8) \o ToLE(d.reserved, 8)

\* InvVpidDescriptor { vpid, addr, reserved_0: 0, reserved_1: 0 }
InvVpidDescriptor(vpid, addr) ==
    [vpid |-> vpid, reserved_0 |-> 0, reserved_1 |-> 0, addr |-> addr]

\* faulty variant: the fields declared in the order invvpid's struct literal lists them
InvVpidDescriptorBytesLiteralOrder(d) ==
    ToLE(d.vpid, 2) \o VirtAddrBytes(d.addr) \o ToLE(d.reserved_0, 2) \o ToLE(d.reserved_1, 4)

\* #[repr(C, packed)]: the fields in declaration order, no padding
InvVpidDescriptorBytes(d) ==
    ToLE(d.vpid, 2) \o ToLE(d.reserved_0, 2) \o ToLE(d.reserved_1, 4) \o VirtAddrBytes(d.addr)

----------------------------------------------------------------------------
(* Machine instructions *)

\* One executed instruction: the field-encoding register, the data register
\* or memory word, the bytes of the memory operand, the invalidation-type register.
Ins(m, field, data, mem, code) ==
    [mnemonic |-> m, field |-> field, data |-> data, mem |-> mem, code |-> code]

VmxMnemonics ==
    {"vmxon", "vmxoff", "vmread", "vmwrite", "vmptrld", "vmclear", "invept", "invvpid"}

\* the VMX instructions among the executed ones
VmxOnly(instrs) == SelectSeq(instrs, LAMBDA i : i.mnemonic \in VmxMnemonics)

(* asm! operands, $0 first.  An output is written by the template; a register
   input holds a value; a memory operand (an "m" input, or a register holding
   a reference that the template dereferences) is the bytes it designates. *)
OutOp == [reg |-> -1, mem |-> <<>>]
RegOp(v) == [reg |-> v, mem |-> <<>>]
MemOp(bytes) == [reg |-> -1, mem |-> bytes]

\* One statement of a template: the mnemonic and the operand numbers in the
\* order they are written (AT&T order: sources first, destination last).
Stmt(m, ops) == [mnemonic |-> m, ops |-> ops]

\* The instruction a statement assembles to, given the operand list.
Assemble(stmt, opnds) ==
    LET x(i) == opnds[stmt.ops[i] + 1]
        m == stmt.mnemonic
    IN  CASE m \in {"vmxon", "vmptrld", "vmclear"} -> Ins(m, -1, -1, x(1).mem, -1)
          [] m = "vmread" -> Ins(m, x(1).reg, -1, <<>>, -1)
          [] m = "vmwrite" -> Ins(m, x(2).reg, x(1).reg, <<>>, -1)
          [] m \in {"invept", "invvpid"} -> Ins(m, -1, -1, x(1).mem, x(2).reg)
          [] OTHER -> Ins(m, -1, -1, <<>>, -1)

AssembleAll(template, opnds) ==
    [i \in 1..Len(template) |-> Assemble(template[i], opnds)]

----------------------------------------------------------------------------
(* The inline-assembly backend: each template with its operand list *)

\* "vmxon $1; setna $0" : "=r"(err) : "m"(addr.as_u64())
VmxonAsm == <<Stmt("vmxon", <<1>>), Stmt("setna", <<0>>)>>
VmxonOperands(addr) == <<OutOp, MemOp(ToLE(AsU64(addr), 8))>>

\* faulty variant: the instruction issued a second time before the flags are read
VmxoffAsmRetry == <<Stmt("vmxoff", <<>>), Stmt("vmxoff", <<>>), Stmt("setna", <<0>>)>>

\* "vmxoff; setna $0" : "=r"(err)
VmxoffAsm == <<Stmt("vmxoff", <<>>), Stmt("setna", <<0>>)>>
VmxoffOperands == <<OutOp>>

\* "vmread $2, $1; setna $0" : "=r"(err), "=r"(value) : "r"(field)
VmreadAsm == <<Stmt("vmread", <<2, 1>>), Stmt("setna", <<0>>)>>
VmreadOperands(field) == <<OutOp, OutOp, RegOp(field)>>

\* faulty variant: the operands written in Intel order, "vmwrite $2, $1"
VmwriteAsmIntelOrder == <<Stmt("vmwrite", <<2, 1>>), Stmt("setna", <<0>>)>>

\* "vmwrite $1, $2; setna $0" : "=r"(err) : "r"(value), "r"(field)
VmwriteAsm == <<Stmt("vmwrite", <<1, 2>>), Stmt("setna", <<0>>)>>
VmwriteOperands(field, value) == <<OutOp, RegOp(value), RegOp(field)>>

\* "vmptrld $1; setna $0" : "=r"(err) : "m"(addr.as_u64())
VmptrldAsm == <<Stmt("vmptrld", <<1>>), Stmt("setna", <<0>>)>>
\* faulty variant: the address rounded down to its page before it is passed
VmptrldOperandsAligned(addr) == <<OutOp, MemOp(ToLE((AsU64(addr) \div 4096) * 4096, 8))>>
VmptrldOperands(addr) == <<OutOp, MemOp(ToLE(AsU64(addr), 8))>>

\* "vmclear $1; setna $0" : "=r"(err) : "m"(addr.as_u64())
VmclearAsm == <<Stmt("vmclear", <<1>>), Stmt("setna", <<0>>)>>
VmclearOperands(addr) == <<OutOp, MemOp(ToLE(AsU64(addr), 8))>>

\* "invept ($1), $2; setna $0" : "=r"(err) : "r"(&descriptor), "r"(invalidation)
InveptAsm == <<Stmt("invept", <<1, 2>>), Stmt("setna", <<0>>)>>
InveptOperands(invalidation, eptp) ==
    <<OutOp, MemOp(InvEptDescriptorBytes(InvEptDescriptor(eptp))),
      RegOp(InvEptTypeCode(invalidation))>>

\* "invvpid ($1), $2; setna $0" : "=r"(err) : "r"(&descriptor), "r"(invalidation)
InvvpidAsm == <<Stmt("invvpid", <<1, 2>>), Stmt("setna", <<0>>)>>
InvvpidOperands(invalidation, vpid, addr) ==
    <<OutOp, MemOp(InvVpidDescriptorBytes(InvVpidDescriptor(vpid, addr))),
      RegOp(InvVpidTypeCode(invalidation))>>

\* faulty variant: sete in place of setna, which tests ZF alone
SeteOnly(fl) == fl.zf = 1

\* setna: the byte is set when CF = 1 or ZF = 1
Setna(fl) == fl.cf = 1 \/ fl.zf = 1

\* `value` after the template: the destination register, which vmread writes
\* only when it succeeds and which is not initialised before
VmreadValueInline(written, junk) == IF written # -1 THEN written ELSE junk

InlineProgram(op, a) ==
    CASE op = "vmxon" -> AssembleAll(VmxonAsm, VmxonOperands(a.addr))
      [] op = "vmxoff" -> AssembleAll(VmxoffAsm, VmxoffOperands)
      [] op = "vmread" -> AssembleAll(VmreadAsm, VmreadOperands(a.field))
      [] op = "vmwrite" -> AssembleAll(VmwriteAsm, VmwriteOperands(a.field, a.value))
      [] op = "vmptrld" -> AssembleAll(VmptrldAsm, VmptrldOperands(a.addr))
      [] op = "vmclear" -> AssembleAll(VmclearAsm, VmclearOperands(a.addr))
      [] op = "invept" -> AssembleAll(InveptAsm, InveptOperands(a.invalidation, a.eptp))
      [] op = "invvpid" ->
            AssembleAll(InvvpidAsm, InvvpidOperands(a.invalidation, a.vpid, a.addr))

----------------------------------------------------------------------------
(* The externally linked backend: the arguments each call site passes to
   crate::asm::x86_64_asm_<op>, and the routines themselves *)

\* x86_64_asm_vmxon(&addr.as_u64())
VmxonExternArgs(addr) == <<MemOp(ToLE(AsU64(addr), 8))>>
\* x86_64_asm_vmxoff()
VmxoffExternArgs == <<>>
\* x86_64_asm_vmread(field, &mut val)
VmreadExternArgs(field) == <<RegOp(field), OutOp>>
\* faulty variant: the call site passes (value, field)
VmwriteExternArgsSwapped(field, value) == <<RegOp(value), RegOp(field)>>

\* x86_64_asm_vmwrite(field, value)
VmwriteExternArgs(field, value) == <<RegOp(field), RegOp(value)>>
\* x86_64_asm_vmptrld(&addr.as_u64())
VmptrldExternArgs(addr) == <<MemOp(ToLE(AsU64(addr), 8))>>
\* x86_64_asm_vmclear(&addr.as_u64())
VmclearExternArgs(addr) == <<MemOp(ToLE(AsU64(addr), 8))>>
\* x86_64_asm_invept(invalidation as u64, &descriptor)
InveptExternArgs(invalidation, eptp) ==
    <<RegOp(InvEptTypeCode(invalidation)),
      MemOp(InvEptDescriptorBytes(InvEptDescriptor(eptp)))>>
\* x86_64_asm_invvpid(invalidation as u64, &descriptor)
InvvpidExternArgs(invalidation, vpid, addr) ==
    <<RegOp(InvVpidTypeCode(invalidation)),
      MemOp(InvVpidDescriptorBytes(InvVpidDescriptor(vpid, addr)))>>

\* crate::asm::x86_64_asm_<op>: the same instruction on the arguments in
\* their declared order, then setna into the returned bool
AsmRoutine(op, argv) ==
    <<CASE op \in {"vmxon", "vmptrld", "vmclear"} -> Ins(op, -1, -1, argv[1].mem, -1)
        [] op = "vmxoff" -> Ins(op, -1, -1, <<>>, -1)
        [] op = "vmread" -> Ins(op, argv[1].reg, -1, <<>>, -1)
        [] op = "vmwrite" -> Ins(op, argv[1].reg, argv[2].reg, <<>>, -1)
        [] op \in {"invept", "invvpid"} -> Ins(op, -1, -1, argv[2].mem, argv[1].reg),
      Ins("setna", -1, -1, <<>>, -1)>>

\* the bool a routine returns
AsmRoutineErr(fl) == fl.cf = 1 \/ fl.zf = 1

\* let mut val = 0; ...(field, &mut val); value = val
VmreadValueExtern(written) == IF written # -1 THEN written ELSE 0

ExternProgram(op, a) ==
    CASE op = "vmxon" -> AsmRoutine(op, VmxonExternArgs(a.addr))
      [] op = "vmxoff" -> AsmRoutine(op, VmxoffExternArgs)
      [] op = "vmread" -> AsmRoutine(op, VmreadExternArgs(a.field))
      [] op = "vmwrite" -> AsmRoutine(op, VmwriteExternArgs(a.field, a.value))
      [] op = "vmptrld" -> AsmRoutine(op, VmptrldExternArgs(a.addr))
      [] op = "vmclear" -> AsmRoutine(op, VmclearExternArgs(a.addr))
      [] op = "invept" -> AsmRoutine(op, InveptExternArgs(a.invalidation, a.eptp))
      [] op = "invvpid" ->
            AsmRoutine(op, InvvpidExternArgs(a.invalidation, a.vpid, a.addr))

----------------------------------------------------------------------------
(* Both backends behind #[cfg(feature = "inline_asm")] *)

\* the instructions a call executes
Program(be, op, a) == IF be = "inline" THEN InlineProgram(op, a) ELSE ExternProgram(op, a)

\* `err` after the instruction
ErrOf(be, fl) == IF be = "inline" THEN Setna(fl) ELSE AsmRoutineErr(fl)

\* `value` after the instruction (vmread)
ValueOf(be, written, junk) ==
    IF be = "inline" THEN VmreadValueInline(written, junk) ELSE VmreadValueExtern(written)

\* faulty variant: vmread hands out `value` without looking at err
WrapValueAlways(op, err, value) ==
    IF op = "vmread" THEN Some(value) ELSE IF err THEN None ELSE SomeUnit

\* if err { None } else { Some(()) }    and, in vmread, Some(value)
Wrap(op, err, value) ==
    IF err THEN None ELSE IF op = "vmread" THEN Some(value) ELSE SomeUnit

----------------------------------------------------------------------------
(* The logical processor, as far as the primitives observe it *)

NoVmcs == -1
NoFields == [f \in Fields |-> 0]

Succeeds(fl) == fl.cf = 0 /\ fl.zf = 0

\* outside VMX operation every VMX instruction but vmxon raises #UD
CpuFaults(c, ins) == ~c.vmxOn /\ ins.mnemonic # "vmxon"

\* what the processor requires before it reports success (CF = ZF = 0);
\* it may report failure in any state
CpuMaySucceed(c, ins) ==
    LET m == ins.mnemonic
    IN  CASE m = "vmxon" -> ~c.vmxOn /\ Len(ins.mem) = 8 /\ FromLE(ins.mem) % 4096 = 0
          [] m = "vmxoff" -> TRUE
          [] m \in {"vmptrld", "vmclear"} -> Len(ins.mem) = 8 /\ FromLE(ins.mem) % 4096 = 0
          [] m = "vmread" -> c.current # NoVmcs /\ ins.field \in Fields
          [] m = "vmwrite" ->
                c.current # NoVmcs /\ ins.field \in Fields /\ ins.data \in VmcsValues
          [] m = "invept" ->
                ins.code \in {1, 2} /\ Len(ins.mem) = 16 /\ AllZero(Slice(ins.mem, 9, 16))
          [] m = "invvpid" ->
                ins.code \in 0..3 /\ Len(ins.mem) = 16 /\ AllZero(Slice(ins.mem, 3, 8))

\* the processor after a successful instruction; `content` is what the VMCS
\* region named by vmptrld holds
CpuNext(c, ins, content) ==
    LET m == ins.mnemonic
    IN  CASE m = "vmxon" -> [vmxOn |-> TRUE, current |-> NoVmcs, vmcs |-> NoFields]
          [] m = "vmxoff" -> [vmxOn |-> FALSE, current |-> NoVmcs, vmcs |-> NoFields]
          [] m = "vmptrld" -> [c EXCEPT !.current = FromLE(ins.mem), !.vmcs = content]
          [] m = "vmclear" ->
                IF c.current = FromLE(ins.mem)
                THEN [c EXCEPT !.current = NoVmcs, !.vmcs = NoFields]
                ELSE c
          [] m = "vmwrite" -> [c EXCEPT !.vmcs[ins.field] = ins.data]
          [] OTHER -> c

\* what a successful instruction writes to its destination (-1: nothing)
CpuWrites(c, ins) == IF ins.mnemonic = "vmread" THEN c.vmcs[ins.field] ELSE -1

(* The machine while a call's instructions execute: the processor, the flags
   and destination left by the last VMX instruction, whether one raised an
   exception, and whether the processor could behave as the outcome says. *)
Machine(c) ==
    [cpu |-> c, fl |-> [cf |-> 0, zf |-> 0], written |-> -1, fault |-> FALSE, ok |-> TRUE]

Step(m, ins, o, content) ==
    IF m.fault \/ ins.mnemonic \notin VmxMnemonics THEN m
    ELSE IF CpuFaults(m.cpu, ins) THEN [m EXCEPT !.fault = TRUE]
    ELSE IF Succeeds(o)
         THEN IF CpuMaySucceed(m.cpu, ins)
              THEN [m EXCEPT !.cpu = CpuNext(m.cpu, ins, content), !.fl = o,
                             !.written = CpuWrites(m.cpu, ins)]
              ELSE [m EXCEPT !.ok = FALSE]
         ELSE [m EXCEPT !.fl = o, !.written = -1]

RECURSIVE Run(_, _, _, _)
Run(m, instrs, o, content) ==
    IF instrs = <<>> THEN m
    ELSE Run(Step(m, Head(instrs), o, content), Tail(instrs), o, content)

----------------------------------------------------------------------------
(* The primitives *)

NoCall ==
    [op |-> "none", args |-> <<>>, instrs |-> <<>>, fl |-> [cf |-> 0, zf |-> 0],
     value |-> -1, res |-> NoReturn]

\* the calls the model makes: <<primitive, arguments>>
AllCalls ==
    {<<"vmxon", [addr |-> PhysAddr(n)]>> : n \in PhysAddrs}
    \cup {<<"vmxoff", <<>> >>}
    \cup {<<"vmread", [field |-> f]>> : f \in Fields}
    \cup {<<"vmwrite", [field |-> f, value |-> v]>> : f \in Fields, v \in VmcsValues}
    \cup {<<"vmptrld", [addr |-> PhysAddr(n)]>> : n \in PhysAddrs}
    \cup {<<"vmclear", [addr |-> PhysAddr(n)]>> : n \in PhysAddrs}
    \cup {<<"invept", [invalidation |-> t, eptp |-> e]>> : t \in InvEptTypes, e \in Eptps}
    \cup {<<"invvpid", [invalidation |-> t, vpid |-> p[1], addr |-> VirtAddr(p[2])]>> :
            t \in InvVpidTypes, p \in VpidInputs}

CallsOf(op) == {c \in AllCalls : c[1] = op}

\* Program, tabulated once over the calls
ProgramOf == [be \in Backends, c \in AllCalls |-> Program(be, c[1], c[2])]

\* what the register allocated to `value` may hold before the template runs
JunkOf(be) == IF be = "inline" THEN JunkValues ELSE {0}

\* history: whether the caller has been told that a vmxon or a vmptrld succeeded
HistAfter(op, res) == hist \/ (res.tag = "Some" /\ op \in {"vmxon", "vmptrld"})

\* history: the last value written to each field of the working VMCS by a
\* vmwrite that returned Some, forgotten when the working VMCS changes
ShadowAfter(op, a, res) ==
    IF res.tag # "Some" THEN shadow
    ELSE IF op = "vmwrite"
         THEN {p \in shadow : p[1] # a.field} \cup {<<a.field, a.value>>}
         ELSE IF op \in {"vmxon", "vmxoff", "vmptrld", "vmclear"} THEN {}
         ELSE shadow

(* One call, c = <<op, a>>, under processor outcome o: the backend's
   instructions run on the processor, then the wrapper turns err (and value)
   into an Option.  The result is the state the call leaves; ok tells whether
   the processor can behave as o says. *)
Returned(c, o, junk, content) ==
    LET op == c[1]
        prog == ProgramOf[backend, c]
        m == Run(Machine(cpu), prog, o, content)
        value == IF op = "vmread" THEN ValueOf(backend, m.written, junk) ELSE -1
        res == IF m.fault THEN NoReturn ELSE Wrap(op, ErrOf(backend, m.fl), value)
    IN  [ok |-> m.ok /\ (m.fault => Succeeds(o)),
         cpu |-> m.cpu,
         last |-> [op |-> op, args |-> c[2], instrs |-> VmxOnly(prog),
                   fl |-> m.fl, value |-> value, res |-> res],
         hist |-> HistAfter(op, res),
         shadow |-> ShadowAfter(op, c[2], res)]

Vmxon ==
    \E c \in CallsOf("vmxon"), o \in Flags :
        \E r \in {Returned(c, o, 0, cpu.vmcs)} :
            /\ r.ok
            /\ cpu' = r.cpu /\ last' = r.last /\ hist' = r.hist /\ shadow' = r.shadow
            /\ UNCHANGED backend

Vmxoff ==
    \E c \in CallsOf("vmxoff"), o \in Flags :
        \E r \in {Returned(c, o, 0, cpu.vmcs)} :
            /\ r.ok
            /\ cpu' = r.cpu /\ last' = r.last /\ hist' = r.hist /\ shadow' = r.shadow
            /\ UNCHANGED backend

\* faulty variant: a layer that remembers whether VMX was entered through it and
\* answers None itself, without the instruction, when it was not
VmreadTracked ==
    \E c \in CallsOf("vmread"), o \in Flags, junk \in JunkOf(backend) :
        \E r \in {Returned(c, o, junk, cpu.vmcs)} :
            IF hist
            THEN /\ r.ok
                 /\ cpu' = r.cpu /\ last' = r.last /\ hist' = r.hist /\ shadow' = r.shadow
                 /\ UNCHANGED backend
            ELSE /\ last' = [op |-> "vmread", args |-> c[2], instrs |-> <<>>,
                             fl |-> [cf |-> 0, zf |-> 0], value |-> -1, res |-> None]
                 /\ UNCHANGED <<backend, cpu, hist, shadow>>

Vmread ==
    \E c \in CallsOf("vmread"), o \in Flags, junk \in JunkOf(backend) :
        \E r \in {Returned(c, o, junk, cpu.vmcs)} :
            /\ r.ok
            /\ cpu' = r.cpu /\ last' = r.last /\ hist' = r.hist /\ shadow' = r.shadow
            /\ UNCHANGED backend

Vmwrite ==
    \E c \in CallsOf("vmwrite"), o \in Flags :
        \E r \in {Returned(c, o, 0, cpu.vmcs)} :
            /\ r.ok
            /\ cpu' = r.cpu /\ last' = r.last /\ hist' = r.hist /\ shadow' = r.shadow
            /\ UNCHANGED backend

Vmptrld ==
    \E c \in CallsOf("vmptrld"), o \in Flags, content \in [Fields -> VmcsValues] :
        /\ Succeeds(o) \/ content = cpu.vmcs
        /\ \E r \in {Returned(c, o, 0, content)} :
            /\ r.ok
            /\ cpu' = r.cpu /\ last' = r.last /\ hist' = r.hist /\ shadow' = r.shadow
            /\ UNCHANGED backend

Vmclear ==
    \E c \in CallsOf("vmclear"), o \in Flags :
        \E r \in {Returned(c, o, 0, cpu.vmcs)} :
            /\ r.ok
            /\ cpu' = r.cpu /\ last' = r.last /\ hist' = r.hist /\ shadow' = r.shadow
            /\ UNCHANGED backend

Invept ==
    \E c \in CallsOf("invept"), o \in Flags :
        \E r \in {Returned(c, o, 0, cpu.vmcs)} :
            /\ r.ok
            /\ cpu' = r.cpu /\ last' = r.last /\ hist' = r.hist /\ shadow' = r.shadow
            /\ UNCHANGED backend

Invvpid ==
    \E c \in CallsOf("invvpid"), o \in Flags :
        \E r \in {Returned(c, o, 0, cpu.vmcs)} :
            /\ r.ok
            /\ cpu' = r.cpu /\ last' = r.last /\ hist' = r.hist /\ shadow' = r.shadow
            /\ UNCHANGED backend

----------------------------------------------------------------------------
(* The processor is in any state when the first primitive is called: the
   layer holds none of it. *)

CpuStates ==
    {c \in [vmxOn : BOOLEAN, current : {n \in PhysAddrs : n % 4096 = 0} \cup {NoVmcs},
            vmcs : [Fields -> VmcsValues]] :
        /\ ~c.vmxOn => c.current = NoVmcs
        /\ c.current = NoVmcs => c.vmcs = NoFields}

Init ==
    /\ backend \in Backends
    /\ cpu \in CpuStates
    /\ last = NoCall
    /\ hist = FALSE
    /\ shadow = {}

Next ==
    \/ Vmxon
    \/ Vmxoff
    \/ Vmread
    \/ Vmwrite
    \/ Vmptrld
    \/ Vmclear
    \/ Invept
    \/ Invvpid

Spec == Init /\ [][Next]_vars

----------------------------------------------------------------------------
(* Properties *)

Called == last.op # "none"
Completed == Called /\ last.res # NoReturn
IsByte(x) == x \in 0..255

\* C1: a primitive whose instruction completes returns None exactly when the
\* instruction left CF = 1 or ZF = 1, and Some when it left both clear,
\* whatever its arguments and whichever backend is built.
C1_FailureIffFlagSet ==
    Completed =>
        /\ (last.res.tag = "None") <=> (last.fl.cf = 1 \/ last.fl.zf = 1)
        /\ (last.fl.cf = 0 /\ last.fl.zf = 0) => last.res.tag = "Some"
        /\ last.res.tag \in {"None", "Some"}

\* C1 witness: the inline backend returned None for CF = 1 with ZF = 0.
C1_Witness ==
    /\ backend = "inline"
    /\ Completed
    /\ last.fl = [cf |-> 1, zf |-> 0]
    /\ last.res = None

\* C2: vmread(field) returns Some(v), v being the value of `field` in the
\* working VMCS, when the instruction succeeds, and None, which carries no
\* value, when it fails, whatever is left in `value`.
C2_VmreadValue ==
    (Completed /\ last.op = "vmread") =>
        IF last.fl.cf = 0 /\ last.fl.zf = 0
        THEN last.res = [tag |-> "Some", val |-> cpu.vmcs[last.args.field]]
        ELSE last.res = [tag |-> "None", val |-> -1]

\* C2 witness: the extern backend, which presets the destination to 0,
\* returned a non-zero field value.
C2_Witness ==
    /\ backend = "extern"
    /\ last.op = "vmread"
    /\ last.res.tag = "Some"
    /\ last.res.val = 26654
    /\ cpu.vmcs[last.args.field] = 26654

MandatedInvEptCode == [SingleContext |-> 1, Global |-> 2]
MandatedInvVpidCode ==
    [IndividualAddress |-> 0, SingleContext |-> 1, AllContext |-> 2,
     SingleContextNonGlobal |-> 3]

\* C3: the invalidation-type register of the one invept / invvpid instruction
\* holds the mandated code of the variant passed, and the variants of one
\* enumeration have distinct codes.
C3_InvalidationCodes ==
    /\ last.op = "invept" =>
          /\ Len(last.instrs) = 1
          /\ last.instrs[1].code = MandatedInvEptCode[last.args.invalidation]
    /\ last.op = "invvpid" =>
          /\ Len(last.instrs) = 1
          /\ last.instrs[1].code = MandatedInvVpidCode[last.args.invalidation]
    /\ \A t, u \in InvEptTypes : InvEptTypeCode(t) = InvEptTypeCode(u) => t = u
    /\ \A t, u \in InvVpidTypes : InvVpidTypeCode(t) = InvVpidTypeCode(u) => t = u

\* C3 witness: invvpid transmitted 3 for SingleContextNonGlobal.
C3_Witness ==
    /\ last.op = "invvpid"
    /\ last.args.invalidation = "SingleContextNonGlobal"
    /\ last.instrs[1].code = 3

\* C4: the memory operand of invept is 16 bytes: bytes 0-7 are eptp in
\* little-endian order, bytes 8-15 are zero.
C4_InvEptDescriptorLayout ==
    last.op = "invept" =>
        LET d == last.instrs[1].mem
        IN  /\ Len(d) = 16
            /\ \A i \in 1..16 : IsByte(d[i])
            /\ FromLE(Slice(d, 1, 8)) = last.args.eptp
            /\ \A i \in 9..16 : d[i] = 0

\* C4 witness: eptp = 0x1000 is read back from the first 8 bytes.
C4_Witness ==
    /\ last.op = "invept"
    /\ last.args.eptp = 4096
    /\ Slice(last.instrs[1].mem, 1, 8) = <<0, 16, 0, 0, 0, 0, 0, 0>>

\* C5: the memory operand of invvpid is 16 bytes: bytes 0-1 are vpid, bytes
\* 2-7 are zero, bytes 8-15 are addr, both little-endian.
C5_InvVpidDescriptorLayout ==
    last.op = "invvpid" =>
        LET d == last.instrs[1].mem
        IN  /\ Len(d) = 16
            /\ \A i \in 1..16 : IsByte(d[i])
            /\ FromLE(Slice(d, 1, 2)) = last.args.vpid
            /\ \A i \in 3..8 : d[i] = 0
            /\ FromLE(Slice(d, 9, 16)) = last.args.addr.virt

\* C5 witness: invvpid(IndividualAddress, 5, 0x2000).
C5_Witness ==
    /\ last.op = "invvpid"
    /\ last.args.invalidation = "IndividualAddress"
    /\ last.args.vpid = 5
    /\ last.args.addr.virt = 8192
    /\ last.instrs[1].mem = <<5, 0, 0, 0, 0, 0, 0, 0, 0, 32, 0, 0, 0, 0, 0, 0>>

OtherBackend == IF backend = "inline" THEN "extern" ELSE "inline"

\* C6: the backend that was not built issues the same instruction with the
\* same operands for the call made, and returns the same Option for the same
\* flags and the same value read.
C6_BackendsEquivalent ==
    Called =>
        /\ VmxOnly(Program(OtherBackend, last.op, last.args)) = last.instrs
        /\ Completed =>
              \A junk \in JunkOf(OtherBackend) :
                  LET read == IF last.op = "vmread" /\ Succeeds(last.fl)
                              THEN cpu.vmcs[last.args.field] ELSE -1
                      value == IF last.op = "vmread"
                               THEN ValueOf(OtherBackend, read, junk) ELSE -1
                  IN  Wrap(last.op, ErrOf(OtherBackend, last.fl), value) = last.res

\* C6 witness: the extern backend completed a vmwrite.
C6_Witness ==
    /\ backend = "extern"
    /\ last.op = "vmwrite"
    /\ last.res = SomeUnit

\* C7: a call executes exactly one VMX instruction, the one of its primitive,
\* and ends in Some or None unless that instruction raised an exception.
C7_OneInstructionPerCall ==
    Called =>
        /\ Len(last.instrs) = 1
        /\ last.instrs[1].mnemonic = last.op
        /\ last.res.tag \in {"Some", "None", "NoReturn"}
        /\ last.res.tag = "NoReturn" => ~cpu.vmxOn

\* C7 witness: a failed vmxoff returned None after one instruction.
C7_Witness ==
    /\ last.op = "vmxoff"
    /\ last.res = None
    /\ Len(last.instrs) = 1

\* C8: whatever was called before, a completed call has executed its
\* instruction and its result is determined by the flags (and, for vmread,
\* the value) that instruction left: nothing is refused because no earlier
\* vmxon or vmptrld was seen to succeed.
C8_NoLayerState ==
    Completed =>
        /\ last.instrs # <<>>
        /\ last.res =
              IF Succeeds(last.fl)
              THEN IF last.op = "vmread" THEN Some(last.value) ELSE SomeUnit
              ELSE None

\* C8 witness: vmread returned Some though no vmxon or vmptrld through the
\* layer had succeeded.
C8_Witness ==
    /\ ~hist
    /\ last.op = "vmread"
    /\ last.res.tag = "Some"

\* C9: vmwrite passes `field` as the field encoding and `value` as the data,
\* vmread passes `field` as the field encoding; a vmread that succeeds returns
\* the value last written to that field by a successful vmwrite on the same
\* working VMCS, and a successful vmwrite changes no other field.
C9_State ==
    /\ last.op = "vmwrite" =>
          /\ last.instrs[1].field = last.args.field
          /\ last.instrs[1].data = last.args.value
    /\ last.op = "vmread" =>
          /\ last.instrs[1].field = last.args.field
          /\ last.res.tag = "Some" =>
                \A p \in shadow : p[1] = last.args.field => last.res = Some(p[2])

C9_Step ==
    (last'.op = "vmwrite" /\ last'.res = SomeUnit) =>
        /\ cpu'.vmcs[last'.args.field] = last'.args.value
        /\ \A g \in Fields \ {last'.args.field} : cpu'.vmcs[g] = cpu.vmcs[g]

C9_WriteThenRead == [](C9_State) /\ [][C9_Step]_vars

\* C9 witness: vmread returned the non-zero value a vmwrite had stored.
C9_Witness ==
    /\ last.op = "vmread"
    /\ last.res = Some(26654)
    /\ <<last.args.field, 26654>> \in shadow

\* C10: the memory operand of vmxon, vmptrld and vmclear is the 64-bit value
\* of addr, unchanged, aligned or not, and the result follows the flags alone.
C10_AddressUnchanged ==
    last.op \in {"vmxon", "vmptrld", "vmclear"} =>
        LET d == last.instrs[1].mem
        IN  /\ Len(d) = 8
            /\ \A i \in 1..8 : IsByte(d[i])
            /\ FromLE(d) = last.args.addr.phys
            /\ Completed => (last.res = SomeUnit <=> Succeeds(last.fl))

\* C10 witness: a vmptrld of an address that is not page aligned reached the
\* instruction unchanged and was rejected by it.
C10_Witness ==
    /\ last.op = "vmptrld"
    /\ last.args.addr.phys % 4096 # 0
    /\ FromLE(last.instrs[1].mem) = last.args.addr.phys
    /\ last.res = None

====
